---- MODULE Spec2Model ----
(***************************************************************************)
(* The two scripts of the repository as one state machine.                 *)
(*   code/pull_tweets.py : enumerate an account's timeline, collect the    *)
(*                         media_url column of every tweet, write a CSV.   *)
(*   code/pull_text.py   : read a CSV of image URLs, fetch every image,    *)
(*                         OCR each response, write the texts to a CSV.    *)
(* A behaviour is one run of one script; `script' says which.              *)
(***************************************************************************)
EXTENDS Integers, Sequences, FiniteSets, TLC

\* Bounds of the model.
MaxTweets == 3
MaxMedia == 2
MaxImages == 5
MaxPauses == 2

VARIABLES
  script,            \* which script this run executes
  pc,                \* position of the module body
  timeline,          \* the account history held by the service (tweet JSON objects)
  web,               \* what the network answers for each image URL of the input CSV
  waiting,           \* the API client sleeps on a rate limit
  pauses,            \* rate-limit sleeps so far
  cares_bot_tweets,  \* pull_tweets.py: list of tweets enumerated
  cares_bot,         \* pull_tweets.py: Series of URLs; pull_text.py: column "images"
  image_requests,    \* pull_text.py: Series of HTTP responses
  respondent_info,   \* pull_text.py: list of recognised texts
  errors,            \* pull_text.py: list of failed indices
  index,             \* zero-based position of the transform loop
  file,              \* the output CSV on disk
  fileAtStart,       \* the output CSV as the run found it
  writes,            \* completed to_csv calls
  fatalAt            \* statement whose uncaught exception ended the run

vars == <<script, pc, timeline, web, waiting, pauses, cares_bot_tweets, cares_bot,
          image_requests, respondent_info, errors, index, file, fileAtStart,
          writes, fatalAt>>

----------------------------------------------------------------------------
\* Inputs

\* tweet._json of the p-th tweet with c entries in entities.media. The service
\* leaves the "media" key out of entities when the tweet has no media.
TweetJson(p, c) ==
  IF c = 0
  THEN [id |-> p, entities |-> [hashtags |-> <<>>]]
  ELSE [id |-> p,
        entities |-> [hashtags |-> <<>>,
                      media |-> [m \in 1..c |-> [media_url |-> <<p, m>>]]]]

Timelines ==
  UNION { { [p \in 1..n |-> TweetJson(p, counts[p])] : counts \in [1..n -> 0..MaxMedia] }
          : n \in 0..MaxTweets }

\* Characters are strings of length one; a text is a sequence of characters.
RawTexts == { <<"a", "\n", "b">>, <<"c">> }

\* The answer to requests.get(url) and to decoding/recognising its body:
\*   image  - a decodable image whose recognised text is `text'
\*   html   - a response whose body is no image (Image.open raises)
\*   badocr - a decodable image on which the recognition engine raises
\*   neterr - requests.get itself raises (no response)
Outcomes ==
  { [kind |-> "image", text |-> t] : t \in RawTexts }
    \cup { [kind |-> k, text |-> <<>>] : k \in {"html", "badocr", "neterr"} }

Webs == UNION { [1..n -> Outcomes] : n \in 0..MaxImages }

\* The output path before the run: absent, or a file left by an earlier run.
Absent == [exists |-> FALSE, stale |-> FALSE, rows |-> <<>>]
Stale == [exists |-> TRUE, stale |-> TRUE, rows |-> <<>>]

Init ==
  /\ script \in {"pull_tweets", "pull_text"}
  /\ pc = IF script = "pull_tweets" THEN "enumerating" ELSE "reading"
  /\ timeline \in (IF script = "pull_tweets" THEN Timelines ELSE {<<>>})
  /\ web \in (IF script = "pull_text" THEN Webs ELSE {<<>>})
  /\ waiting = FALSE
  /\ pauses = 0
  /\ cares_bot_tweets = <<>>
  /\ cares_bot = <<>>
  /\ image_requests = <<>>
  /\ respondent_info = <<>>
  /\ errors = <<>>
  /\ index = 0
  /\ file \in {Absent, Stale}
  /\ fileAtStart = file
  /\ writes = 0
  /\ fatalAt = "none"

world == <<script, timeline, web, fileAtStart>>

----------------------------------------------------------------------------
\* Serialisation

\* Series.to_csv: one row per element, the index (0..k-1, ignore_index=True) first.
SeriesRows(s) == [i \in 1..Len(s) |-> <<i - 1, s[i]>>]

\* pd.DataFrame(respondent_info).to_csv(path, index=False): one row per text.
FrameRows(texts) == [i \in 1..Len(texts) |-> <<texts[i]>>]

\* The file a completed to_csv leaves at the output path.
Written(rows) == [exists |-> TRUE, stale |-> FALSE, rows |-> rows]

\* An uncaught exception: the interpreter exits, no later statement runs.
Abort(where) ==
  /\ pc' = "fatal"
  /\ fatalAt' = where

----------------------------------------------------------------------------
\* pull_tweets.py

\* One more tweet delivered by the cursor.
NextTweet ==
  /\ script = "pull_tweets" /\ pc = "enumerating" /\ ~waiting
  /\ Len(cares_bot_tweets) < Len(timeline)
  /\ cares_bot_tweets' = Append(cares_bot_tweets, timeline[Len(cares_bot_tweets) + 1])
  /\ UNCHANGED <<world, pc, waiting, pauses, cares_bot, image_requests,
                 respondent_info, errors, index, file, writes, fatalAt>>

\* Mutant: the client built without wait_on_rate_limit raises on a rate limit.
RateLimitWait_Raises ==
  /\ script = "pull_tweets" /\ pc = "enumerating" /\ ~waiting
  /\ pauses < MaxPauses
  /\ Abort("ratelimit")
  /\ UNCHANGED <<world, waiting, pauses, cares_bot_tweets, cares_bot, image_requests,
                 respondent_info, errors, index, file, writes>>

\* The service signals a rate limit: the client (wait_on_rate_limit=True) sleeps.
RateLimitWait ==
  /\ script = "pull_tweets" /\ pc = "enumerating" /\ ~waiting
  /\ pauses < MaxPauses
  /\ waiting' = TRUE
  /\ pauses' = pauses + 1
  /\ UNCHANGED <<world, pc, cares_bot_tweets, cares_bot, image_requests,
                 respondent_info, errors, index, file, writes, fatalAt>>

\* The sleep ends and the client repeats the request it was about to make.
RateLimitResume ==
  /\ script = "pull_tweets" /\ pc = "enumerating" /\ waiting
  /\ waiting' = FALSE
  /\ UNCHANGED <<world, pc, pauses, cares_bot_tweets, cares_bot, image_requests,
                 respondent_info, errors, index, file, writes, fatalAt>>

\* The service cannot be reached or refuses the credentials: uncaught.
EnumFail ==
  /\ script = "pull_tweets" /\ pc = "enumerating" /\ ~waiting
  /\ Abort("enumerate")
  /\ UNCHANGED <<world, waiting, pauses, cares_bot_tweets, cares_bot, image_requests,
                 respondent_info, errors, index, file, writes>>

\* The cursor is exhausted; the second loop starts.
EnumDone ==
  /\ script = "pull_tweets" /\ pc = "enumerating" /\ ~waiting
  /\ Len(cares_bot_tweets) = Len(timeline)
  /\ pc' = "transforming"
  /\ UNCHANGED <<world, waiting, pauses, cares_bot_tweets, cares_bot, image_requests,
                 respondent_info, errors, index, file, writes, fatalAt>>

\* pd.json_normalize(tweet._json, ["entities", "media"])["media_url"] raises
\* KeyError when entities has no "media" (or an empty one: no column at all).
RaisesKeyError(tweet) ==
  \/ "media" \notin DOMAIN tweet.entities
  \/ Len(tweet.entities.media) = 0

\* Mutant: only the first media entry is taken.
MediaUrlColumn_FirstOnly(tweet) == <<tweet.entities.media[1].media_url>>

\* The column "media_url" of the normalised frame: one row per media entry.
MediaUrlColumn(tweet) ==
  [m \in 1..Len(tweet.entities.media) |-> tweet.entities.media[m].media_url]

\* Mutant: the Series is saved inside the loop.
ExtractMedia_Incremental ==
  /\ script = "pull_tweets" /\ pc = "transforming"
  /\ index < Len(cares_bot_tweets)
  /\ LET tweet == cares_bot_tweets[index + 1] IN
       IF RaisesKeyError(tweet)
       THEN cares_bot' = cares_bot
       ELSE cares_bot' = cares_bot \o MediaUrlColumn(tweet)
  /\ file' = Written(SeriesRows(cares_bot'))
  /\ index' = index + 1
  /\ UNCHANGED <<world, pc, waiting, pauses, cares_bot_tweets, image_requests,
                 respondent_info, errors, writes, fatalAt>>

\* One iteration of the extraction loop.
ExtractMedia ==
  /\ script = "pull_tweets" /\ pc = "transforming"
  /\ index < Len(cares_bot_tweets)
  /\ LET tweet == cares_bot_tweets[index + 1] IN
       IF RaisesKeyError(tweet)
       THEN cares_bot' = cares_bot
       ELSE cares_bot' = cares_bot \o MediaUrlColumn(tweet)
  /\ index' = index + 1
  /\ UNCHANGED <<world, pc, waiting, pauses, cares_bot_tweets, image_requests,
                 respondent_info, errors, file, writes, fatalAt>>

TweetsLoopEnd ==
  /\ script = "pull_tweets" /\ pc = "transforming"
  /\ index = Len(cares_bot_tweets)
  /\ pc' = "writing"
  /\ UNCHANGED <<world, waiting, pauses, cares_bot_tweets, cares_bot, image_requests,
                 respondent_info, errors, index, file, writes, fatalAt>>

\* Mutant: an empty Series is not written.
WriteUrls_SkipsEmpty ==
  /\ script = "pull_tweets" /\ pc = "writing"
  /\ IF cares_bot = <<>>
     THEN UNCHANGED <<file, writes>>
     ELSE /\ file' = Written(SeriesRows(cares_bot))
          /\ writes' = writes + 1
  /\ pc' = "done"
  /\ UNCHANGED <<world, waiting, pauses, cares_bot_tweets, cares_bot, image_requests,
                 respondent_info, errors, index, fatalAt>>

\* cares_bot.to_csv(path)
WriteUrls ==
  /\ script = "pull_tweets" /\ pc = "writing"
  /\ file' = Written(SeriesRows(cares_bot))
  /\ writes' = writes + 1
  /\ pc' = "done"
  /\ UNCHANGED <<world, waiting, pauses, cares_bot_tweets, cares_bot, image_requests,
                 respondent_info, errors, index, fatalAt>>

----------------------------------------------------------------------------
\* pull_text.py

\* pd.read_csv(..., names=["images"], skiprows=1): the rows after the header.
\* The URLs are numbered in file order; web[u] is what the network holds for u.
ReadCsv ==
  /\ script = "pull_text" /\ pc = "reading"
  /\ cares_bot' = [u \in 1..Len(web) |-> u]
  /\ pc' = "fetching"
  /\ UNCHANGED <<world, waiting, pauses, cares_bot_tweets, image_requests,
                 respondent_info, errors, index, file, writes, fatalAt>>

\* The input file is missing or unreadable: uncaught.
ReadFail ==
  /\ script = "pull_text" /\ pc = "reading"
  /\ Abort("read")
  /\ UNCHANGED <<world, waiting, pauses, cares_bot_tweets, cares_bot, image_requests,
                 respondent_info, errors, index, file, writes>>

\* requests.get(url) raises (connection error, timeout, malformed URL).
GetRaises(url) == web[url].kind = "neterr"

\* cares_bot["images"].apply(requests.get): the requests are made one after the
\* other, in row order, and every response is kept in the resulting Series.
FetchImage ==
  /\ script = "pull_text" /\ pc = "fetching"
  /\ Len(image_requests) < Len(cares_bot)
  /\ LET url == cares_bot[Len(image_requests) + 1] IN
       /\ ~GetRaises(url)
       /\ image_requests' = Append(image_requests, [url |-> url, content |-> web[url]])
  /\ UNCHANGED <<world, pc, waiting, pauses, cares_bot_tweets, cares_bot,
                 respondent_info, errors, index, file, writes, fatalAt>>

\* Mutant: what was collected is saved before the exception propagates.
FetchFail_SavesPartial ==
  /\ script = "pull_text" /\ pc = "fetching"
  /\ Len(image_requests) < Len(cares_bot)
  /\ GetRaises(cares_bot[Len(image_requests) + 1])
  /\ file' = Written(FrameRows(respondent_info))
  /\ Abort("fetch")
  /\ UNCHANGED <<world, waiting, pauses, cares_bot_tweets, cares_bot, image_requests,
                 respondent_info, errors, index, writes>>

\* The statement is outside every try: an exception of requests.get is uncaught.
FetchFail ==
  /\ script = "pull_text" /\ pc = "fetching"
  /\ Len(image_requests) < Len(cares_bot)
  /\ GetRaises(cares_bot[Len(image_requests) + 1])
  /\ Abort("fetch")
  /\ UNCHANGED <<world, waiting, pauses, cares_bot_tweets, cares_bot, image_requests,
                 respondent_info, errors, index, file, writes>>

\* apply has visited every row; the loop starts.
FetchDone ==
  /\ script = "pull_text" /\ pc = "fetching"
  /\ Len(image_requests) = Len(cares_bot)
  /\ pc' = "transforming"
  /\ UNCHANGED <<world, waiting, pauses, cares_bot_tweets, cares_bot, image_requests,
                 respondent_info, errors, index, file, writes, fatalAt>>

\* str.replace("\n", " ")
RECURSIVE Replace(_)
Replace(text) ==
  IF text = <<>> THEN <<>>
  ELSE <<IF Head(text) = "\n" THEN " " ELSE Head(text)>> \o Replace(Tail(text))

\* Image.open(BytesIO(image.content)) or pytesseract.image_to_string raises.
OcrRaises(image) == image.content.kind # "image"

\* pytesseract.image_to_string(opened_image).replace("\n", " ")
ImageText(image) == Replace(image.content.text)

\* Mutant: the except branch skips the item without recording its index.
ProcessImage_SilentSkip ==
  /\ script = "pull_text" /\ pc = "transforming"
  /\ index < Len(image_requests)
  /\ LET image == image_requests[index + 1] IN
       IF ~OcrRaises(image)
       THEN respondent_info' = Append(respondent_info, ImageText(image))
       ELSE respondent_info' = respondent_info
  /\ index' = index + 1
  /\ UNCHANGED <<world, pc, waiting, pauses, cares_bot_tweets, cares_bot,
                 image_requests, errors, file, writes, fatalAt>>

\* Mutant: a failed item leaves an empty text in its place.
ProcessImage_NullPad ==
  /\ script = "pull_text" /\ pc = "transforming"
  /\ index < Len(image_requests)
  /\ LET image == image_requests[index + 1] IN
       IF ~OcrRaises(image)
       THEN /\ respondent_info' = Append(respondent_info, ImageText(image))
            /\ errors' = errors
       ELSE /\ errors' = Append(errors, index)
            /\ respondent_info' = Append(respondent_info, <<>>)
  /\ index' = index + 1
  /\ UNCHANGED <<world, pc, waiting, pauses, cares_bot_tweets, cares_bot,
                 image_requests, file, writes, fatalAt>>

\* Mutant: the handler catches the decoder's exception only, so an exception of
\* the recognition engine leaves the loop.
ProcessImage_OnlyDecodeCaught ==
  /\ script = "pull_text" /\ pc = "transforming"
  /\ index < Len(image_requests)
  /\ LET image == image_requests[index + 1] IN
       CASE image.content.kind = "image" ->
              /\ respondent_info' = Append(respondent_info, ImageText(image))
              /\ UNCHANGED <<errors, pc, fatalAt>>
              /\ index' = index + 1
         [] image.content.kind = "html" ->
              /\ errors' = Append(errors, index)
              /\ UNCHANGED <<respondent_info, pc, fatalAt>>
              /\ index' = index + 1
         [] OTHER ->
              /\ Abort("ocr")
              /\ UNCHANGED <<respondent_info, errors, index>>
  /\ UNCHANGED <<world, waiting, pauses, cares_bot_tweets, cares_bot,
                 image_requests, file, writes>>

\* One iteration of the OCR loop: the try body, or the bare except.
ProcessImage ==
  /\ script = "pull_text" /\ pc = "transforming"
  /\ index < Len(image_requests)
  /\ LET image == image_requests[index + 1] IN
       IF ~OcrRaises(image)
       THEN /\ respondent_info' = Append(respondent_info, ImageText(image))
            /\ errors' = errors
       ELSE /\ errors' = Append(errors, index)
            /\ respondent_info' = respondent_info
  /\ index' = index + 1
  /\ UNCHANGED <<world, pc, waiting, pauses, cares_bot_tweets, cares_bot,
                 image_requests, file, writes, fatalAt>>

TextLoopEnd ==
  /\ script = "pull_text" /\ pc = "transforming"
  /\ index = Len(image_requests)
  /\ pc' = "writing"
  /\ UNCHANGED <<world, waiting, pauses, cares_bot_tweets, cares_bot, image_requests,
                 respondent_info, errors, index, file, writes, fatalAt>>

WriteTexts ==
  /\ script = "pull_text" /\ pc = "writing"
  /\ file' = Written(FrameRows(respondent_info))
  /\ writes' = writes + 1
  /\ pc' = "done"
  /\ UNCHANGED <<world, waiting, pauses, cares_bot_tweets, cares_bot, image_requests,
                 respondent_info, errors, index, fatalAt>>

----------------------------------------------------------------------------
\* Both scripts: to_csv raises. Either the path cannot be opened (the file is as
\* it was) or it was opened, hence truncated, and a later write failed.
WriteFail ==
  /\ pc = "writing"
  /\ \/ file' = file
     \/ file' = Written(<<>>)
  /\ Abort("write")
  /\ UNCHANGED <<world, waiting, pauses, cares_bot_tweets, cares_bot, image_requests,
                 respondent_info, errors, index, writes>>

Next ==
  \/ NextTweet
  \/ RateLimitWait
  \/ RateLimitResume
  \/ EnumFail
  \/ EnumDone
  \/ ExtractMedia
  \/ TweetsLoopEnd
  \/ WriteUrls
  \/ ReadCsv
  \/ ReadFail
  \/ FetchImage
  \/ FetchFail
  \/ FetchDone
  \/ ProcessImage
  \/ TextLoopEnd
  \/ WriteTexts
  \/ WriteFail

Spec == Init /\ [][Next]_vars

\* The interpreter never stops by itself: the statement it is at is executed,
\* whether it returns or raises, and a rate-limit sleep ends. Only the service
\* decides whether to signal a rate limit.
Runs ==
  \/ NextTweet \/ RateLimitResume \/ EnumFail \/ EnumDone \/ ExtractMedia
  \/ TweetsLoopEnd \/ WriteUrls
  \/ ReadCsv \/ ReadFail \/ FetchImage \/ FetchFail \/ FetchDone \/ ProcessImage
  \/ TextLoopEnd \/ WriteTexts \/ WriteFail

FairSpec == Init /\ [][Next]_vars /\ WF_vars(Runs)

----------------------------------------------------------------------------
\* Vocabulary of the properties

TweetsRun == script = "pull_tweets"
TextRun == script = "pull_text"

\* The RawRecords enumerated, and the DerivedRecords, of either script.
RawRecords == IF TweetsRun THEN cares_bot_tweets ELSE image_requests
DerivedRecords == IF TweetsRun THEN cares_bot ELSE respondent_info

\* Number of entries of entities.media of a tweet.
MediaCount(tweet) ==
  IF "media" \in DOMAIN tweet.entities THEN Len(tweet.entities.media) ELSE 0

\* Every media URL of the first k tweets of the timeline, in timeline order.
RECURSIVE AllMediaUrls(_)
AllMediaUrls(k) ==
  IF k = 0 THEN <<>>
  ELSE AllMediaUrls(k - 1) \o [m \in 1..MediaCount(timeline[k]) |-> <<timeline[k].id, m>>]

\* The first media URL of each of the first k tweets that has media.
RECURSIVE FirstMediaUrls(_)
FirstMediaUrls(k) ==
  IF k = 0 THEN <<>>
  ELSE FirstMediaUrls(k - 1)
         \o (IF MediaCount(timeline[k]) = 0 THEN <<>> ELSE <<<<timeline[k].id, 1>>>>)

\* Zero-based positions 0..k-1 of the input CSV, in order.
Positions(k) == [i \in 1..k |-> i - 1]

\* The image at zero-based position i decodes and is recognised.
Recognised(i) == web[i + 1].kind = "image"
NotRecognised(i) == ~Recognised(i)

\* A text without line breaks.
NoLineBreak(text) == \A j \in 1..Len(text) : text[j] # "\n"

\* The phases of a run, in order; an uncaught exception ends the run.
PhaseRank(p) ==
  CASE p \in {"enumerating", "reading"} -> 0
    [] p = "fetching" -> 1
    [] p = "transforming" -> 2
    [] p = "writing" -> 3
    [] p = "done" -> 4
    [] OTHER -> 5

\* Enumeration finished and yielded no item.
ZeroItems ==
  \/ TweetsRun /\ Len(timeline) = 0 /\ pc # "enumerating" /\ fatalAt # "enumerate"
  \/ TextRun /\ Len(web) = 0 /\ pc # "reading" /\ fatalAt # "read"

----------------------------------------------------------------------------
\* C1 as stated: in every completed run of either script, DerivedRecords plus
\* FailureIndices number as many as the RawRecords enumerated.
C1_OneOutcomePerItem ==
  pc = "done" => Len(DerivedRecords) + Len(errors) = Len(RawRecords)

\* C1 amended: in the OCR run successes plus recorded failures equal the items
\* the loop has visited, and all items once the loop is over; the link
\* extraction run records no failure index at all, and its DerivedRecords
\* number as many as the media entries of the tweets visited.
C1_OneOutcomePerImage ==
  /\ (TextRun /\ pc \in {"transforming", "writing", "done"}) =>
        /\ Len(respondent_info) + Len(errors) = index
        /\ pc \in {"writing", "done"} => index = Len(web) /\ Len(image_requests) = Len(web)
  /\ TweetsRun =>
        /\ errors = <<>>
        /\ Len(cares_bot) = Len(AllMediaUrls(index))
        /\ pc \in {"writing", "done"} => index = Len(timeline)

C1_Witness ==
  /\ TextRun /\ pc = "done"
  /\ Len(errors) >= 2 /\ Len(respondent_info) >= 2

\* C2: the OCR run writes the recognised texts of the positions that did not
\* fail, in enumeration order and without padding, and errors holds the failed
\* positions, each once, in ascending order.
C2_OrderedOmission ==
  (TextRun /\ pc \in {"transforming", "writing", "done"}) =>
     LET ok == SelectSeq(Positions(index), Recognised)
         bad == SelectSeq(Positions(index), NotRecognised)
     IN /\ Len(respondent_info) = Len(ok)
        /\ \A j \in 1..Len(ok) :
              /\ respondent_info[j] = Replace(web[ok[j] + 1].text)
              /\ NoLineBreak(respondent_info[j])
              /\ Len(respondent_info[j]) = Len(web[ok[j] + 1].text)
        /\ errors = bad
        /\ \A j, k \in 1..Len(errors) : j < k => errors[j] < errors[k]
        /\ pc = "done" => /\ index = Len(web)
                          /\ file = Written(FrameRows(respondent_info))

C2_Witness ==
  /\ TextRun /\ pc = "done"
  /\ Len(web) = 5
  /\ errors = <<1, 3>>
  /\ Len(file.rows) = 3
  /\ file.rows[1] # file.rows[2]

\* C3 as stated: in the link extraction run a tweet without media adds no URL
\* and a tweet with media adds exactly its first media URL.
C3_FirstMediaOnly ==
  (TweetsRun /\ pc = "done") => cares_bot = FirstMediaUrls(Len(timeline))

\* C3 amended: a tweet without media adds no URL and the loop goes on; a tweet
\* with N >= 1 entries in entities.media adds all N URLs, in order; the output
\* holds one row per media entry, in enumeration order.
C3_EveryMediaUrl ==
  /\ (TweetsRun /\ pc \in {"transforming", "writing", "done"}) =>
        cares_bot = AllMediaUrls(index)
  /\ (TweetsRun /\ pc = "done") =>
        /\ index = Len(timeline)
        /\ file = Written(SeriesRows(AllMediaUrls(Len(timeline))))

C3_Witness ==
  /\ TweetsRun /\ pc = "done"
  /\ Len(timeline) = 3
  /\ MediaCount(timeline[1]) = 2
  /\ MediaCount(timeline[2]) = 0
  /\ MediaCount(timeline[3]) = 1
  /\ Len(file.rows) = 3

\* C4 as stated: a fetch error never ends the OCR run; the index of the item
\* is recorded and the run goes on to the final write.
C4_FetchErrorRecovered ==
  TextRun =>
     /\ fatalAt # "fetch"
     /\ pc = "done" =>
           \A i \in 0..(Len(web) - 1) :
              web[i + 1].kind = "neterr" => \E j \in 1..Len(errors) : errors[j] = i

\* C5: when an item is no decodable image, or the recognition engine raises on
\* it, the iteration records its index, adds no text, leaves what was
\* accumulated as it was and the loop goes on with the next item.
C5_DecodeFailureRecovered ==
  [][(/\ TextRun /\ pc = "transforming"
      /\ index < Len(image_requests)
      /\ image_requests[index + 1].content.kind \in {"html", "badocr"})
     => (/\ pc' = "transforming"
         /\ fatalAt' = "none"
         /\ errors' = Append(errors, index)
         /\ respondent_info' = respondent_info
         /\ index' = index + 1)]_vars

C5_Witness ==
  /\ TextRun /\ pc = "transforming"
  /\ index < Len(image_requests)
  /\ Len(respondent_info) >= 1
  /\ \E j, k \in 1..Len(errors) :
        /\ web[errors[j] + 1].kind = "html"
        /\ web[errors[k] + 1].kind = "badocr"
        /\ errors[k] = index - 1

\* C6: a run goes forward through its phases only; the output file changes
\* only in the step that leaves the writing phase, after every enumerated item
\* was transformed, and a completed run has written exactly once.
C6_SinglePass ==
  /\ [](pc = "done" => writes = 1)
  /\ [](writes <= 1)
  /\ [][/\ PhaseRank(pc') >= PhaseRank(pc)
        /\ (file' # file \/ writes' # writes) =>
              /\ pc = "writing"
              /\ writes = 0
              /\ index = Len(RawRecords)
              /\ Len(RawRecords) = (IF TweetsRun THEN Len(timeline) ELSE Len(web))]_vars

C6_Witness ==
  /\ pc = "done" /\ writes = 1
  /\ Len(RawRecords) >= 3
  /\ fileAtStart = Stale /\ file # fileAtStart

C8_EmptyRunCompletes ==
  ZeroItems =>
     /\ errors = <<>> /\ DerivedRecords = <<>>
     /\ pc = "fatal" => fatalAt = "write"
     /\ pc = "fetching" => ENABLED FetchDone
     /\ pc = "transforming" => ENABLED (TextLoopEnd \/ TweetsLoopEnd)
     /\ pc = "writing" => ENABLED (WriteTexts \/ WriteUrls)
     /\ pc = "done" => writes = 1 /\ file = Written(<<>>)

C8_Witness ==
  /\ ZeroItems /\ TweetsRun /\ pc = "done"
  /\ fileAtStart = Absent /\ file.exists

\* C9: rate-limit sleeps during enumeration raise nothing and lose nothing:
\* whatever the number of sleeps, the transform stage gets the whole timeline
\* and the output is the one of a run without sleeps; every sleep ends, and
\* the run ends (done, unless a statement raised).
C9_RateLimitTransparent ==
  /\ [](fatalAt \in {"none", "enumerate", "read", "fetch", "write"})
  /\ []((TweetsRun /\ pc \in {"transforming", "writing", "done"}) =>
           cares_bot_tweets = timeline)
  /\ []((TweetsRun /\ pc = "done") =>
           file = Written(SeriesRows(AllMediaUrls(Len(timeline)))))
  /\ [][(waiting /\ ~waiting') =>
           (pc' = "enumerating" /\ cares_bot_tweets' = cares_bot_tweets)]_vars
  /\ (waiting ~> ~waiting)
  /\ <>(pc \in {"done", "fatal"})

C9_Witness ==
  /\ TweetsRun /\ pc = "done"
  /\ pauses = MaxPauses
  /\ Len(timeline) >= 2 /\ Len(file.rows) >= 2

\* C10 as stated: the fetch of item i is issued only after item i-1 was
\* transformed, and at most one fetched response is held at any time.
C10_OneRawRecordInFlight ==
  TextRun =>
     /\ Len(image_requests) <= index + 1
     /\ Len(image_requests) >= 2 => pc # "fetching"

====
